---- MODULE Spec2Model ----
(***************************************************************************)
(* A model of turingmachine.py: the Tape (a Python list with a head index  *)
(* and cached index bounds) and the TuringMachine that steps over it.      *)
(*                                                                         *)
(* Python values are modelled as follows.  A tape cell holds a symbol (a   *)
(* one-character string) or None.  A Python string is the sequence of its  *)
(* characters.  An optional constructor argument is <<>> for None and      *)
(* <<v>> for the value v.  A raised exception is recorded by its name in   *)
(* exc; a call that raises leaves every assignment it had not yet made     *)
(* undone, as in Python.  List positions are 0-based in the source and     *)
(* 1-based in Sequences; PyIndex converts.                                 *)
(***************************************************************************)
EXTENDS Integers, Sequences, FiniteSets, TLC

VARIABLES
    tape,           \* the Tape object: [_list, _loc, _min_loc, _max_loc]
    tm,             \* the TuringMachine object's fields (its tape is `tape`)
    pc,             \* where the driver is: "tape", "idle", "running", "returned", "raised"
    draw,           \* run's local `draw`
    print_configs,  \* run's parameter `print_configs`
    printed,        \* the tuple run printed last (<<>>: nothing printed yet)
    ndraw,          \* number of tape.draw() calls made by run
    op,             \* the public operation called last, with its argument
    ret,            \* what that call returned (<<>>: nothing, or it raised)
    exc,            \* the exception that call raised ("": none)
    steps,          \* number of advance() calls that completed
    hist,           \* history of the tape: [len0, nmoves, ncross, before]
    twin            \* a second machine, built alike but for its rejecting set

vars == <<tape, tm, pc, draw, print_configs, printed, ndraw, op, ret, exc,
          steps, hist, twin>>

\* ------------------------------------------------------------------ bounds

MaxLen == 2
MaxSize == 2
MaxMoves == 3
MaxSteps == 4
MaxText == 2
MaxShift == 27

\* ------------------------------------------------------------------ values

None == "None"
Symbols == {"a", "b"}
Cells == Symbols \cup {None}

right == "R"
left == "L"
stay == "S"

NoExc == ""
IndexError == "IndexError"
KeyError == "KeyError"

\* The element of a one-element set.  {e(x) : x \in {v}} names v by x in e:
\* TLC evaluates v once, where it evaluates a LET definition at each use
\* when it computes ENABLED.
The(S) == CHOOSE x \in S : TRUE

PyNone == <<>>
Some(v) == <<v>>

RECURSIVE StringsOfLen(_)
StringsOfLen(n) ==
    IF n = 0 THEN {<<>>}
    ELSE {Append(s, c) : s \in StringsOfLen(n - 1), c \in Symbols}

Strings == UNION {StringsOfLen(n) : n \in 0..MaxLen}

\* Python's `if x:` for an optional string and for an optional int.
TruthyStr(x) == x # PyNone /\ x[1] # <<>>
TruthyInt(x) == x # PyNone /\ x[1] # 0

\* [None] * n
Blanks(n) == [i \in 1..(IF n > 0 THEN n ELSE 0) |-> None]

\* lst[i] in Python: valid for -len <= i < len, negative i counting from the end.
PyInRange(i, n) == -n <= i /\ i < n
PyIndex(i, n) == IF i < 0 THEN i + n + 1 ELSE i + 1

\* ------------------------------------------------------------------ Tape

_get_max_loc(t) == Len(t._list) - 1

TapeInit(initial_state, start_size) ==
    LET lst == IF TruthyStr(initial_state) THEN initial_state[1]
               ELSE IF TruthyInt(start_size) THEN Blanks(start_size[1])
               ELSE <<>>
        t == [_list |-> lst, _loc |-> 0, _min_loc |-> 0, _max_loc |-> 0]
    IN [t EXCEPT !._max_loc = _get_max_loc(t)]

\* Faulty variant: the cached right bound is not refreshed after growing on the left.
_expand_left_stale_max(t, n_spaces) ==
    [t EXCEPT !._loc = t._loc + n_spaces,
              !._list = Blanks(n_spaces) \o t._list]

\* Faulty variant: the head index is not shifted with the cells.
_expand_left_keep_loc(t, n_spaces) ==
    LET g == [t EXCEPT !._list = Blanks(n_spaces) \o t._list]
    IN [g EXCEPT !._max_loc = _get_max_loc(g)]

_expand_left(t, n_spaces) ==
    LET g == [t EXCEPT !._loc = t._loc + n_spaces,
                       !._list = Blanks(n_spaces) \o t._list]
    IN [g EXCEPT !._max_loc = _get_max_loc(g)]

\* Faulty variant: the new cells repeat the last symbol instead of being blank.
_expand_right_repeat_last(t, n_spaces) ==
    LET last == IF t._list = <<>> THEN None ELSE t._list[Len(t._list)]
        g == [t EXCEPT !._list = t._list \o [i \in 1..n_spaces |-> last]]
    IN [g EXCEPT !._max_loc = _get_max_loc(g)]

_expand_right(t, n_spaces) ==
    LET g == [t EXCEPT !._list = t._list \o Blanks(n_spaces)]
    IN [g EXCEPT !._max_loc = _get_max_loc(g)]

\* Faulty variant: at the left boundary the head stays where it is and the
\* tape does not grow.
move_left_clamped(t) ==
    IF t._loc = t._min_loc THEN t ELSE [t EXCEPT !._loc = t._loc - 1]

move_left(t) ==
    LET e == IF t._loc = t._min_loc THEN _expand_left(t, 1) ELSE t
    IN [e EXCEPT !._loc = e._loc - 1]

move_right(t) ==
    LET e == IF t._loc = t._max_loc THEN _expand_right(t, 1) ELSE t
    IN [e EXCEPT !._loc = e._loc + 1]

\* get_char: [val, exc]
get_char(t) ==
    IF PyInRange(t._loc, Len(t._list))
    THEN [val |-> t._list[PyIndex(t._loc, Len(t._list))], exc |-> NoExc]
    ELSE [val |-> None, exc |-> IndexError]

\* set_char: [tape, exc]
set_char(t, value) ==
    IF PyInRange(t._loc, Len(t._list))
    THEN [tape |-> [t EXCEPT !._list[PyIndex(t._loc, Len(t._list))] = value],
          exc |-> NoExc]
    ELSE [tape |-> t, exc |-> IndexError]

\* ''.join([item for item in self._list if item != None])
RECURSIVE Join(_)
Join(items) ==
    IF items = <<>> THEN <<>>
    ELSE <<Head(items)>> \o Join(Tail(items))

\* Faulty variant: the scan stops at the first blank cell.
RECURSIVE UntilBlank(_)
UntilBlank(items) ==
    IF items = <<>> \/ Head(items) = None THEN <<>>
    ELSE <<Head(items)>> \o UntilBlank(Tail(items))

get_string_until_blank(t) == Join(UntilBlank(t._list))

get_string(t) == Join(SelectSeq(t._list, LAMBDA item : item # None))

\* ------------------------------------------------------------------ the tape on its own

NoMachine == [none |-> TRUE]
NoPrint == <<>>
NoRet == <<>>

Call(name, arg) == [name |-> name, arg |-> arg]

\* Whether the head is on the first / the last allocated cell.
AtLeftEnd(t) == t._loc = 0
AtRightEnd(t) == t._loc = Len(t._list) - 1

TapeArgs ==
    {<<s, n>> : s \in {PyNone} \cup {Some(x) : x \in Strings},
                n \in {PyNone} \cup {Some(k) : k \in 0..MaxSize}}

InitTape ==
    /\ \E a \in TapeArgs :
          /\ tape = TapeInit(a[1], a[2])
          /\ op = Call("Tape", a)
    /\ tm = NoMachine
    /\ twin = NoMachine
    /\ pc = "tape"
    /\ draw = FALSE
    /\ print_configs = FALSE
    /\ printed = NoPrint
    /\ ndraw = 0
    /\ ret = NoRet
    /\ exc = NoExc
    /\ steps = 0
    /\ hist = [len0 |-> Len(tape._list), nmoves |-> 0, ncross |-> 0,
               before |-> tape]

machineVars == <<tm, pc, draw, print_configs, printed, ndraw, steps, twin>>

MoveLeft ==
    /\ pc = "tape"
    /\ hist.nmoves < MaxMoves
    /\ tape' = move_left(tape)
    /\ op' = Call("move_left", None)
    /\ ret' = NoRet
    /\ exc' = NoExc
    /\ hist' = [hist EXCEPT !.before = tape,
                            !.nmoves = @ + 1,
                            !.ncross = @ + (IF AtLeftEnd(tape) THEN 1 ELSE 0)]
    /\ UNCHANGED machineVars

MoveRight ==
    /\ pc = "tape"
    /\ hist.nmoves < MaxMoves
    /\ tape' = move_right(tape)
    /\ op' = Call("move_right", None)
    /\ ret' = NoRet
    /\ exc' = NoExc
    /\ hist' = [hist EXCEPT !.before = tape,
                            !.nmoves = @ + 1,
                            !.ncross = @ + (IF AtRightEnd(tape) THEN 1 ELSE 0)]
    /\ UNCHANGED machineVars

SetChar ==
    /\ pc = "tape"
    /\ \E value \in Cells :
          LET r == set_char(tape, value)
          IN /\ tape' = r.tape
             /\ exc' = r.exc
             /\ op' = Call("set_char", value)
    /\ ret' = NoRet
    /\ UNCHANGED <<hist, machineVars>>

GetChar ==
    /\ pc = "tape"
    /\ LET r == get_char(tape)
       IN /\ ret' = IF r.exc = NoExc THEN Some(r.val) ELSE NoRet
          /\ exc' = r.exc
    /\ op' = Call("get_char", None)
    /\ UNCHANGED <<tape, hist, machineVars>>

GetString ==
    /\ pc = "tape"
    /\ ret' = Some(get_string(tape))
    /\ exc' = NoExc
    /\ op' = Call("get_string", None)
    /\ UNCHANGED <<tape, hist, machineVars>>

NextTape == MoveLeft \/ MoveRight \/ SetChar \/ GetChar \/ GetString

TapeSpec == InitTape /\ [][NextTape]_vars

\* ------------------------------------------------------------------ TuringMachine

States == {0, 1, 2}
Keys == States \X Cells

\* A transition table is a function on Keys; NoEntry marks a key the dict lacks.
NoEntry == <<>>
HasKey(d, k) == d[k] # NoEntry

\* The dict holding the given (state, symbol, next_state, output, direction) rows.
MkTable(rows) ==
    [k \in Keys |->
        IF \E r \in rows : r[1] = k[1] /\ r[2] = k[2]
        THEN LET r == CHOOSE r \in rows : r[1] = k[1] /\ r[2] = k[2]
             IN <<r[3], r[4], r[5]>>
        ELSE NoEntry]

\* The demo's shape on the alphabet {a, b}: state 0 starts, state 1 rewrites
\* each letter and walks right, the first blank leads to state 2.
FlipTable ==
    MkTable({<<0, "a", 1, "a", stay>>, <<0, "b", 1, "b", stay>>,
             <<1, "a", 1, "b", right>>, <<1, "b", 1, "a", right>>,
             <<1, None, 2, None, stay>>})

\* Walks left off the start of the tape, then comes back.
LeftTable ==
    MkTable({<<0, "a", 0, "b", left>>, <<0, "b", 1, "a", right>>,
             <<0, None, 1, "a", left>>, <<1, None, 1, "b", right>>,
             <<1, "a", 2, None, left>>, <<1, "b", 2, "b", stay>>})

\* Enters state 1 and stays there until it meets a blank.
LoopTable ==
    MkTable({<<0, "a", 1, "a", stay>>, <<0, "b", 1, "b", right>>,
             <<0, None, 1, None, stay>>,
             <<1, "a", 1, "a", stay>>, <<1, "b", 1, "b", right>>,
             <<1, None, 2, "a", left>>})

\* Total on every key: each state erases what it reads and moves on.
TotalTable ==
    MkTable({<<q, c, (q + 1) % 3, (IF c = "a" THEN "b" ELSE None),
               (IF q = 0 THEN right ELSE IF q = 1 THEN left ELSE stay)>> :
             q \in States, c \in Cells})

\* Rows whose direction is none of 'L', 'R', 'S'.
OddTable ==
    MkTable({<<0, "a", 1, "b", "X">>, <<0, "b", 0, "a", right>>,
             <<0, None, 2, "a", "X">>, <<1, "b", 2, "a", None>>,
             <<1, None, 0, "b", left>>})

Tables == {FlipTable, LeftTable, LoopTable, TotalTable, OddTable}

AcceptingSets == {{2}, {1, 2}, {}}
RejectingSets == {{}, {1}, {1, 2}}

\* TuringMachine.__init__: [tm, exc]; the tape is kept by reference.
TuringMachineInit(initial_tape, initial_state, states, accepting_states, rejecting_states, transitions) ==
    LET g == get_char(initial_tape)
    IN [tm |-> [states |-> states,
                current_state |-> initial_state,
                current_input |-> g.val,
                _accepting_states |-> accepting_states,
                _rejecting_states |-> rejecting_states,
                _transition_fn |-> transitions],
        exc |-> g.exc]

\* Faulty variant: the head moves first and the output is written where it lands.
advance_write_after_move(t, m) ==
    LET g == get_char(t)
    IN IF g.exc # NoExc THEN [tape |-> t, tm |-> m, exc |-> g.exc]
       ELSE
       LET m1 == [m EXCEPT !.current_input = g.val]
           current_config == <<m1.current_state, m1.current_input>>
       IN IF ~HasKey(m1._transition_fn, current_config)
          THEN [tape |-> t, tm |-> m1, exc |-> KeyError]
          ELSE
          LET next_config == m1._transition_fn[current_config]
              direction == next_config[3]
              moved == IF direction = right THEN move_right(t)
                       ELSE IF direction = left THEN move_left(t)
                       ELSE t
          IN [tape |-> set_char(moved, next_config[2]).tape,
              tm |-> [m1 EXCEPT !.current_state = next_config[1]],
              exc |-> NoExc]

\* Faulty variant: a missing key is looked up with a default that changes nothing
\* (same state, same symbol, stay), as with dict.get.
advance_default_on_miss(t, m) ==
    LET g == get_char(t)
    IN IF g.exc # NoExc THEN [tape |-> t, tm |-> m, exc |-> g.exc]
       ELSE
       LET m1 == [m EXCEPT !.current_input = g.val]
           current_config == <<m1.current_state, m1.current_input>>
           next_config == IF HasKey(m1._transition_fn, current_config)
                          THEN m1._transition_fn[current_config]
                          ELSE <<m1.current_state, m1.current_input, stay>>
           direction == next_config[3]
           w == set_char(t, next_config[2])
       IN [tape |-> IF direction = right THEN move_right(w.tape)
                    ELSE IF direction = left THEN move_left(w.tape)
                    ELSE w.tape,
           tm |-> [m1 EXCEPT !.current_state = next_config[1]],
           exc |-> NoExc]

\* Faulty variant: current_input is refreshed at the end of the step, from the
\* cell the head has moved to.
advance_input_after_move(t, m) ==
    LET g == get_char(t)
    IN IF g.exc # NoExc THEN [tape |-> t, tm |-> m, exc |-> g.exc]
       ELSE
       LET current_config == <<m.current_state, g.val>>
       IN IF ~HasKey(m._transition_fn, current_config)
          THEN [tape |-> t, tm |-> m, exc |-> KeyError]
          ELSE
          LET next_config == m._transition_fn[current_config]
              direction == next_config[3]
              w == set_char(t, next_config[2])
              moved == IF direction = right THEN move_right(w.tape)
                       ELSE IF direction = left THEN move_left(w.tape)
                       ELSE w.tape
          IN [tape |-> moved,
              tm |-> [m EXCEPT !.current_state = next_config[1],
                               !.current_input = get_char(moved).val],
              exc |-> NoExc]

\* Faulty variant: the lookup uses the current_input left by the previous read
\* instead of the symbol under the head.
advance_cached_input(t, m) ==
    LET g == get_char(t)
    IN IF g.exc # NoExc THEN [tape |-> t, tm |-> m, exc |-> g.exc]
       ELSE
       LET current_config == <<m.current_state, m.current_input>>
           m1 == [m EXCEPT !.current_input = g.val]
       IN IF ~HasKey(m._transition_fn, current_config)
          THEN [tape |-> t, tm |-> m1, exc |-> KeyError]
          ELSE
          LET next_config == m._transition_fn[current_config]
              direction == next_config[3]
              w == set_char(t, next_config[2])
          IN [tape |-> IF direction = right THEN move_right(w.tape)
                       ELSE IF direction = left THEN move_left(w.tape)
                       ELSE w.tape,
              tm |-> [m1 EXCEPT !.current_state = next_config[1]],
              exc |-> NoExc]

\* Faulty variant: reading consumes the symbol; the cell is blanked before the
\* lookup and written again once the row is known.
advance_erase_on_read(t, m) ==
    LET g == get_char(t)
    IN IF g.exc # NoExc THEN [tape |-> t, tm |-> m, exc |-> g.exc]
       ELSE
       LET m1 == [m EXCEPT !.current_input = g.val]
           current_config == <<m1.current_state, m1.current_input>>
       IN IF ~HasKey(m1._transition_fn, current_config)
          THEN [tape |-> set_char(t, None).tape, tm |-> m1, exc |-> KeyError]
          ELSE
          LET next_config == m1._transition_fn[current_config]
              direction == next_config[3]
              w == set_char(t, next_config[2])
          IN [tape |-> IF direction = right THEN move_right(w.tape)
                       ELSE IF direction = left THEN move_left(w.tape)
                       ELSE w.tape,
              tm |-> [m1 EXCEPT !.current_state = next_config[1]],
              exc |-> NoExc]

\* Faulty variant: a direction other than 'L', 'R', 'S' is refused after the
\* state was set and the symbol written.
advance_reject_direction(t, m) ==
    LET g == get_char(t)
    IN IF g.exc # NoExc THEN [tape |-> t, tm |-> m, exc |-> g.exc]
       ELSE
       LET m1 == [m EXCEPT !.current_input = g.val]
           current_config == <<m1.current_state, m1.current_input>>
       IN IF ~HasKey(m1._transition_fn, current_config)
          THEN [tape |-> t, tm |-> m1, exc |-> KeyError]
          ELSE
          LET next_config == m1._transition_fn[current_config]
              direction == next_config[3]
              w == set_char(t, next_config[2])
          IN [tape |-> IF direction = right THEN move_right(w.tape)
                       ELSE IF direction = left THEN move_left(w.tape)
                       ELSE w.tape,
              tm |-> [m1 EXCEPT !.current_state = next_config[1]],
              exc |-> IF direction \in {right, left, stay} THEN NoExc
                      ELSE "ValueError"]

\* advance: [tape, tm, exc].  What was assigned before a raise stays assigned.
advance(t, m) ==
    LET g == get_char(t)
    IN IF g.exc # NoExc THEN [tape |-> t, tm |-> m, exc |-> g.exc]
       ELSE
       LET m1 == [m EXCEPT !.current_input = g.val]
           current_config == <<m1.current_state, m1.current_input>>
       IN IF ~HasKey(m1._transition_fn, current_config)
          THEN [tape |-> t, tm |-> m1, exc |-> KeyError]
          ELSE
          LET next_config == m1._transition_fn[current_config]
              next_state == next_config[1]
              char_out == next_config[2]
              direction == next_config[3]
              m2 == [m1 EXCEPT !.current_state = next_state]
              w == set_char(t, char_out)
          IN IF w.exc # NoExc THEN [tape |-> t, tm |-> m2, exc |-> w.exc]
             ELSE [tape |-> IF direction = right THEN move_right(w.tape)
                            ELSE IF direction = left THEN move_left(w.tape)
                            ELSE w.tape,
                   tm |-> m2,
                   exc |-> NoExc]

\* Faulty variant: the loop tests the rejecting set instead of the accepting set.
LoopCond_rejecting(m) == m.current_state \notin m._rejecting_states

\* Faulty variant: the loop tests the state list instead of the accepting set.
LoopCond_states(m) ==
    \E i \in 1..Len(m.states) : m.states[i] = m.current_state

\* Faulty variant: the loop also ends in a rejecting state.
LoopCond_or_rejecting(m) ==
    /\ m.current_state \notin m._accepting_states
    /\ m.current_state \notin m._rejecting_states

\* run's loop condition: `self.current_state not in self._accepting_states`
LoopCond(m) == m.current_state \notin m._accepting_states

\* A machine with its tape and the state of the driver's call on it.
World(t, m, p, d, pcf, pr, nd, r, e, n) ==
    [tape |-> t, tm |-> m, pc |-> p, draw |-> d, print_configs |-> pcf,
     printed |-> pr, ndraw |-> nd, ret |-> r, exc |-> e, steps |-> n]

\* The driver calls advance() on an idle machine.
call_advance(w) ==
    The({[w EXCEPT !.tape = a.tape, !.tm = a.tm, !.exc = a.exc, !.ret = NoRet,
                   !.steps = IF a.exc = NoExc THEN @ + 1 ELSE @] :
         a \in {advance(w.tape, w.tm)}})

\* The driver calls run(draw, print_configs) on an idle machine.
call_run(w, d, pcf) ==
    [w EXCEPT !.pc = "running", !.draw = d, !.print_configs = pcf,
              !.printed = NoPrint, !.ndraw = 0, !.ret = NoRet, !.exc = NoExc]

\* After advance() in the loop body: `if print_configs:` sets draw to False,
\* looks up (current_state, current_input) and prints; `if draw == True:`
\* draws the tape.
run_print(w) ==
    IF ~w.print_configs THEN w
    ELSE IF ~HasKey(w.tm._transition_fn, <<w.tm.current_state, w.tm.current_input>>)
    THEN [w EXCEPT !.draw = FALSE, !.pc = "raised", !.exc = KeyError]
    ELSE [w EXCEPT !.draw = FALSE,
                   !.printed =
                       <<w.tm.current_state,
                         w.tm.current_input,
                         w.tm._transition_fn[<<w.tm.current_state, w.tm.current_input>>][2],
                         w.tm._transition_fn[<<w.tm.current_state, w.tm.current_input>>][1],
                         w.tm._transition_fn[<<w.tm.current_state, w.tm.current_input>>][3]>>]

run_draw(w) ==
    IF w.pc # "raised" /\ w.draw = TRUE THEN [w EXCEPT !.ndraw = @ + 1] ELSE w

\* One pass through the body of run's while loop.
run_body(w) ==
    The({IF a.exc # NoExc
         THEN [w EXCEPT !.tape = a.tape, !.tm = a.tm, !.pc = "raised", !.exc = a.exc]
         ELSE The({run_draw(p) :
                   p \in {run_print([w EXCEPT !.tape = a.tape, !.tm = a.tm,
                                              !.steps = @ + 1])}}) :
         a \in {advance(w.tape, w.tm)}})

\* Leaving the loop: `return self.tape.get_string()`
run_return(w) ==
    [w EXCEPT !.pc = "returned", !.ret = Some(get_string(w.tape))]

\* run from wherever it stands: the loop test, then the body or the return.
run_step(w) ==
    IF w.pc # "running" THEN w
    ELSE IF LoopCond(w.tm) THEN run_body(w)
    ELSE run_return(w)

Primary ==
    World(tape, tm, pc, draw, print_configs, printed, ndraw, ret, exc, steps)

Becomes(next) ==
    \E w \in {next} :
    /\ tape' = w.tape
    /\ tm' = w.tm
    /\ pc' = w.pc
    /\ draw' = w.draw
    /\ print_configs' = w.print_configs
    /\ printed' = w.printed
    /\ ndraw' = w.ndraw
    /\ ret' = w.ret
    /\ exc' = w.exc
    /\ steps' = w.steps

StateList == <<0, 1, 2>>

Init ==
    /\ \E a \in TapeArgs, tf \in Tables, q0 \in States,
          acc \in AcceptingSets, rej \in RejectingSets :
          LET t == TapeInit(a[1], a[2])
              c == TuringMachineInit(t, q0, StateList, acc, rej, tf)
              c2 == TuringMachineInit(t, q0, StateList, acc, States \ rej, tf)
          IN /\ c.exc = NoExc
             /\ tape = t
             /\ tm = c.tm
             /\ twin = World(t, c2.tm, "idle", FALSE, FALSE, NoPrint, 0,
                             NoRet, NoExc, 0)
    /\ pc = "idle"
    /\ draw = FALSE
    /\ print_configs = FALSE
    /\ printed = NoPrint
    /\ ndraw = 0
    /\ op = Call("TuringMachine", None)
    /\ ret = NoRet
    /\ exc = NoExc
    /\ steps = 0
    /\ hist = [len0 |-> Len(tape._list), nmoves |-> 0, ncross |-> 0,
               before |-> tape]

Advance ==
    /\ pc = "idle"
    /\ steps < MaxSteps
    /\ Becomes(call_advance(Primary))
    /\ twin' = call_advance(twin)
    /\ op' = Call("advance", None)
    /\ UNCHANGED hist

RunCall ==
    /\ pc = "idle"
    /\ \E d \in BOOLEAN, pcf \in BOOLEAN :
          /\ Becomes(call_run(Primary, d, pcf))
          /\ twin' = call_run(twin, d, pcf)
          /\ op' = Call("run", <<d, pcf>>)
    /\ UNCHANGED hist

RunIter ==
    /\ pc = "running"
    /\ LoopCond(tm)
    /\ steps < MaxSteps
    /\ Becomes(run_body(Primary))
    /\ twin' = run_step(twin)
    /\ UNCHANGED <<op, hist>>

RunReturn ==
    /\ pc = "running"
    /\ ~LoopCond(tm)
    /\ Becomes(run_return(Primary))
    /\ twin' = run_step(twin)
    /\ UNCHANGED <<op, hist>>

Next == Advance \/ RunCall \/ RunIter \/ RunReturn

Spec == Init /\ [][Next]_vars

\* run is a plain blocking loop on one thread: once called it keeps going.
FairSpec == Spec /\ WF_vars(RunIter) /\ WF_vars(RunReturn)

\* ------------------------------------------------------------------ properties of the tape

\* C4: after construction and after every move_left, move_right, set_char and
\* get_char, min_bound = 0, max_bound = (number of cells) - 1 and
\* min_bound <= head <= max_bound, so that no read or write at the head
\* raises IndexError; for every tape the constructor builds, the empty one
\* included.
C4_HeadInBounds ==
    pc = "tape" =>
        /\ tape._min_loc = 0
        /\ tape._max_loc = Len(tape._list) - 1
        /\ tape._min_loc <= tape._loc
        /\ tape._loc <= tape._max_loc
        /\ exc # IndexError

\* What one move does to the cells: one blank more on the side of the move
\* when the head is on the last allocated cell of that side, else nothing.
C5_MoveGrowth ==
    LET grew == Len(tape'._list) = Len(tape._list) + 1
        same == tape'._list = tape._list
    IN /\ hist'.nmoves # hist.nmoves /\ op'.name = "move_left" =>
            IF AtLeftEnd(tape)
            THEN grew /\ tape'._list = <<None>> \o tape._list
            ELSE same
       /\ hist'.nmoves # hist.nmoves /\ op'.name = "move_right" =>
            IF AtRightEnd(tape)
            THEN grew /\ tape'._list = tape._list \o <<None>>
            ELSE same
       /\ Len(tape'._list) >= Len(tape._list)

\* C5: a move adds exactly one blank cell, on the side it moves to, when the
\* head is on the last allocated cell of that side, and no cell otherwise;
\* so the number of cells is the initial number plus the number of moves made
\* from the boundary, is at most the initial number plus the number of moves,
\* and never decreases.
C5_LazyGrowth ==
    /\ [](/\ Len(tape._list) = hist.len0 + hist.ncross
          /\ Len(tape._list) <= hist.len0 + hist.nmoves)
    /\ [][C5_MoveGrowth]_vars

\* Growth on both sides and a move that did not grow the tape.
C5_Witness ==
    /\ pc = "tape"
    /\ hist.len0 >= 1
    /\ hist.nmoves = 3
    /\ hist.ncross = 2
    /\ hist.len0 = 1
    /\ Len(tape._list) = 3
    /\ tape._list[1] = None
    /\ tape._list[2] # None
    /\ tape._list[3] = None

\* s holds the non-blank cells of lst, each once, in their order in lst.
IsNonBlankConcat(s, lst) ==
    LET idx == {i \in 1..Len(lst) : lst[i] # None}
    IN /\ Len(s) = Cardinality(idx)
       /\ \A i \in idx : s[Cardinality({j \in idx : j <= i})] = lst[i]

\* C6: get_string() returns the non-blank cells in left-to-right order, each
\* once, with nothing for a blank cell.
C6_GetStringConcat ==
    pc = "tape" /\ op.name = "get_string" =>
        /\ exc = NoExc
        /\ ret # NoRet
        /\ IsNonBlankConcat(ret[1], tape._list)

\* get_string() on a tape with a blank between two symbols and a blank at an end.
C6_Witness ==
    /\ pc = "tape"
    /\ op.name = "get_string"
    /\ \E i, j, k \in 1..Len(tape._list) :
          /\ i < j /\ j < k
          /\ tape._list[i] # None /\ tape._list[j] = None /\ tape._list[k] # None
    /\ ret = Some(get_string(tape))
    /\ Len(ret[1]) = 2

\* C7: on every tape, set_char(x) followed at once by get_char() returns x,
\* and get_char() changes neither the cells nor the head.
C7_WriteReadRoundTrip ==
    [][/\ op'.name = "set_char" => exc' = NoExc
       /\ op'.name = "get_char" =>
             /\ tape' = tape
             /\ op.name = "set_char" => ret' = Some(op.arg)]_vars

\* ------------------------------------------------------------------ properties of the machine

\* The table row for the state and the symbol under the head (NoEntry: none).
HeadKey == <<tm.current_state, get_char(tape).val>>
HeadRow == tm._transition_fn[HeadKey]

\* What a completed step leaves, for a row (q', b, d) with d one of 'L', 'R', 'S'.
C1_Step ==
    LET n == Len(tape._list)
        n2 == Len(tape'._list)
        d == HeadRow[3]
        \* position (from 1) of the cell that was read, in the tape afterwards
        cell == IF d = left THEN n2 - (n - (tape._loc + 1)) ELSE tape._loc + 1
        head == tape'._loc + 1
    IN steps' = steps + 1 /\ HeadRow[3] \in {left, right, stay} =>
          /\ tm'.current_state = HeadRow[1]
          /\ cell \in 1..n2
          /\ head \in 1..n2
          /\ tape'._list[cell] = HeadRow[2]
          /\ d = left => head = cell - 1
          /\ d = right => head = cell + 1
          /\ d = stay => head = cell /\ n2 = n

\* C1: when (current_state, symbol under the head) has the row (q', b, d) with
\* d one of 'L', 'R', 'S', a completed advance() leaves current_state = q', the
\* cell that was read holding b, and the head one cell to the left of that
\* cell for 'L', one cell to the right for 'R', on that cell for 'S'.  The
\* cell that was read keeps its distance to the right end in a move to the
\* left and its distance to the left end otherwise.
C1_SingleStep == [][C1_Step]_vars

\* Three direct steps of LeftTable from state 0 on "a": two moves to the left
\* that grow the tape while writing, then a move to the right.
C1_Witness ==
    /\ pc = "idle"
    /\ op.name = "advance"
    /\ steps = 3
    /\ tm._transition_fn = LeftTable
    /\ tm.current_state = 1
    /\ tape._list = <<"b", "a", "b">>
    /\ tape._loc = 1

\* The loop of run, step by step.
C2_Loop ==
    /\ pc = "running" /\ steps' = steps + 1 =>
          tm.current_state \notin tm._accepting_states
    /\ pc = "running" /\ tm.current_state \in tm._accepting_states =>
          /\ pc' = "returned"
          /\ steps' = steps
          /\ tape' = tape
          /\ tm' = tm
    /\ pc = "running" /\ tm.current_state \notin tm._accepting_states =>
          pc' # "returned"
    /\ pc = "returned" => pc' = "returned" /\ steps' = steps

C3_Miss ==
    LET miss == ~HasKey(tm._transition_fn, HeadKey)
    IN /\ pc = "running" /\ tm.current_state \notin tm._accepting_states /\ miss =>
             /\ pc' = "raised"
             /\ exc' = KeyError
             /\ steps' = steps
             /\ ret' = NoRet
       /\ pc = "idle" /\ pc' = "idle" /\ miss =>
             /\ exc' = KeyError
             /\ steps' = steps
       /\ pc = "raised" => pc' = "raised" /\ steps' = steps

\* C3: when the state is not accepting and (current_state, symbol under the
\* head) has no row, the next advance() raises KeyError and completes no
\* step; run ends there, raising it, without a further step and without a
\* returned string.
C3_FatalLookupMiss ==
    /\ [](pc = "raised" => ret = NoRet /\ exc # NoExc)
    /\ [][C3_Miss]_vars

\* run (not printing) raised KeyError after two steps: the head pair has no row.
C3_Witness ==
    /\ pc = "raised"
    /\ exc = KeyError
    /\ ~print_configs
    /\ steps >= 2
    /\ tm.current_state \notin tm._accepting_states
    /\ ~HasKey(tm._transition_fn, HeadKey)

\* Whether the trajectory from (t, m) meets an accepting state within k steps,
\* every pair on the way having a row.
RECURSIVE WillAccept(_, _, _)
WillAccept(t, m, k) ==
    \/ m.current_state \in m._accepting_states
    \/ /\ k > 0
       /\ LET a == advance(t, m)
          IN a.exc = NoExc /\ WillAccept(a.tape, a.tm, k - 1)

\* C8: run with the default flags returns whenever the trajectory from where
\* it stands meets an accepting state within the steps left, every pair on
\* the way having a row.
C8_Termination ==
    [](pc = "running" /\ ~draw /\ ~print_configs
          /\ WillAccept(tape, tm, MaxSteps - steps)
       => <>(pc = "returned"))

\* run with the default flags returned after walking LeftTable for three steps.
C8_Witness ==
    /\ pc = "returned"
    /\ ~draw
    /\ ~print_configs
    /\ ndraw = 0
    /\ printed = NoPrint
    /\ steps >= 3
    /\ tm._transition_fn = LeftTable

\* A step of run from a state that is rejecting and not accepting.
C9_NoHalt ==
    pc = "running" /\ tm.current_state \in tm._rejecting_states
                   /\ tm.current_state \notin tm._accepting_states =>
        /\ pc' # "returned"
        /\ steps' = steps + 1 \/ pc' = "raised"

C10_Print ==
    pc = "running" /\ print_configs /\ steps' = steps + 1 =>
        /\ pc' = "running"
        /\ printed' = <<tm.current_state, get_char(tape).val,
                        HeadRow[2], HeadRow[1], HeadRow[3]>>
        /\ ndraw' = 0

\* C10: with print_configs, after each step run prints (state before the
\* step, symbol read, symbol written, state after the step, direction) of the
\* row the step applied, and never draws the tape.
C10_PrintsAppliedRow == [][C10_Print]_vars

\* ------------------------------------------------------------------ properties of the step

\* A transition in which advance() is invoked, directly or by run's loop.
InvokesAdvance ==
    \/ pc = "idle" /\ pc' = "idle"
    \/ pc = "running" /\ LoopCond(tm)

\* C11: after construction current_input is the symbol under the head; after
\* every advance() it is the symbol that advance() read, that is the one that
\* was under the head before the step wrote and moved; nothing else changes it.
C11_Read ==
    IF InvokesAdvance
    THEN tm'.current_input = get_char(tape).val
    ELSE tm'.current_input = tm.current_input

C11_CurrentInput ==
    /\ tm.current_input = get_char(tape).val
    /\ [][C11_Read]_vars

\* A step has been made that replaced the symbol it read and went on to a cell
\* holding yet another symbol: current_input is neither of the two.
C11_Witness ==
    /\ pc = "idle"
    /\ op.name = "advance"
    /\ steps = 1
    /\ exc = NoExc
    /\ tape._loc = 1
    /\ tm.current_input # tape._list[1]
    /\ tm.current_input # get_char(tape).val

\* What a step of a second machine must agree on with the step just made.
SameOutcome(a) ==
    /\ a.exc = exc'
    /\ a.tm.current_state = tm'.current_state
    /\ a.tape._list = tape'._list
    /\ a.tape._loc = tape'._loc

\* The machine in lockstep, which shares the table and differs in its
\* rejecting set, stands in the same configuration.
C12_TwinAgrees ==
    /\ twin.tm._transition_fn = tm._transition_fn
    /\ twin.tm.current_state = tm.current_state
    /\ twin.tape._list = tape._list
    /\ twin.tape._loc = tape._loc
    /\ twin.exc = exc

C12_Step ==
    pc = "idle" /\ pc' = "idle" =>
        \A ci \in Cells, acc \in AcceptingSets, rej \in RejectingSets :
            SameOutcome(advance(tape, [tm EXCEPT !.current_input = ci,
                                                 !._accepting_states = acc,
                                                 !._rejecting_states = rej]))

\* C12: two machines with the same table, the same current_state and tapes
\* with the same cells and head, each stepped once with advance(), end with the
\* same state, cells and head, or both with the lookup-miss error, whatever
\* else differs between them (current_input left by an earlier read, accepting
\* and rejecting sets).
C12_StepDeterminism ==
    /\ [](pc = "idle" => C12_TwinAgrees)
    /\ [][C12_Step]_vars

\* Two steps to the right have been made, in lockstep, by machines with
\* different rejecting sets, leaving different symbols behind.
C12_Witness ==
    /\ pc = "idle"
    /\ op.name = "advance"
    /\ exc = NoExc
    /\ steps = 2
    /\ twin.steps = 2
    /\ twin.tm._rejecting_states # tm._rejecting_states
    /\ tape._loc = 2
    /\ tape._list[1] # tape._list[2]

\* ------------------------------------------------------------------ the cipher demo

ascii_lowercase ==
    <<"a", "b", "c", "d", "e", "f", "g", "h", "i", "j", "k", "l", "m",
      "n", "o", "p", "q", "r", "s", "t", "u", "v", "w", "x", "y", "z">>

Letters == {ascii_lowercase[i] : i \in 1..Len(ascii_lowercase)}

\* ord(c) - ord('a')
Ord(c) == (CHOOSE i \in 1..Len(ascii_lowercase) : ascii_lowercase[i] = c) - 1

\* chr(byte + ord('a'))
Chr(byte) == ascii_lowercase[byte + 1]

cipher(c, shift) == Chr((Ord(c) + shift) % Len(ascii_lowercase))

DemoCells == Letters \cup {" ", None}
DemoKeys == States \X DemoCells

\* The dict the two loops of the demo fill, for encryption (shift) or
\* decryption (-shift).
DemoTable(shift) ==
    [k \in DemoKeys |->
        IF k[2] = " " THEN <<k[1], " ", right>>
        ELSE IF k[1] = 0 /\ k[2] \in Letters THEN <<1, k[2], stay>>
        ELSE IF k[1] = 1 /\ k[2] \in Letters THEN <<1, cipher(k[2], shift), right>>
        ELSE IF k[1] = 1 /\ k[2] = None THEN <<2, None, stay>>
        ELSE NoEntry]

\* The command line: a non-empty plaintext of lowercase letters and spaces,
\* and an integer shift.
DemoSymbols == {"a", "m", "z", " "}
DemoTexts == UNION {[1..n -> DemoSymbols] : n \in 1..MaxText}
Shifts == (-MaxShift)..MaxShift

\* Tape(initial_state=string) and TuringMachine(tape, 0, states, [2], [], transitions)
DemoMachine(string, shift) ==
    The({[tape |-> t,
          c |-> TuringMachineInit(t, 0, StateList, {2}, {}, DemoTable(shift))] :
         t \in {TapeInit(Some(string), PyNone)}})

DemoInit ==
    /\ \E string \in DemoTexts, shift \in Shifts :
          /\ tape = DemoMachine(string, shift).tape
          /\ tm = DemoMachine(string, shift).c.tm
          /\ op = Call("encrypt", <<string, shift>>)
    /\ twin = NoMachine
    /\ pc = "idle"
    /\ draw = FALSE
    /\ print_configs = FALSE
    /\ printed = NoPrint
    /\ ndraw = 0
    /\ ret = NoRet
    /\ exc = NoExc
    /\ steps = 0
    /\ hist = [len0 |-> Len(tape._list), nmoves |-> 0, ncross |-> 0,
               before |-> tape]

\* T_encrypt.run(draw=True, print_configs=False) / T_decrypt.run(draw=True)
DemoRun ==
    /\ pc = "idle"
    /\ Becomes(call_run(Primary, TRUE, FALSE))
    /\ UNCHANGED <<op, hist, twin>>

DemoIter ==
    /\ pc = "running"
    /\ LoopCond(tm)
    /\ Becomes(run_body(Primary))
    /\ UNCHANGED <<op, hist, twin>>

DemoReturn ==
    /\ pc = "running"
    /\ ~LoopCond(tm)
    /\ Becomes(run_return(Primary))
    /\ UNCHANGED <<op, hist, twin>>

\* After encryption: a tape holding the ciphertext and the machine with the
\* table built with -shift.
DemoDecrypt ==
    /\ pc = "returned"
    /\ op.name = "encrypt"
    /\ \E d \in {DemoMachine(ret[1], -op.arg[2])} :
          /\ tape' = d.tape
          /\ tm' = d.c.tm
          /\ exc' = d.c.exc
          /\ pc' = IF d.c.exc = NoExc THEN "idle" ELSE "raised"
    /\ op' = Call("decrypt", op.arg)
    /\ ret' = NoRet
    /\ steps' = 0
    /\ ndraw' = 0
    /\ UNCHANGED <<draw, print_configs, printed, hist, twin>>

DemoNext == DemoRun \/ DemoIter \/ DemoReturn \/ DemoDecrypt

DemoSpec == DemoInit /\ [][DemoNext]_vars

\* d is c moved forward by shift places in the alphabet, wrapping around.
ShiftedBy(c, d, shift) ==
    /\ c \in Letters
    /\ d \in Letters
    /\ (Ord(d) - Ord(c) - shift) % Len(ascii_lowercase) = 0

\* C13: for every non-empty plaintext of lowercase letters and spaces and
\* every integer shift, the demo's encrypt machine does not raise, ends in
\* state 2 and returns a ciphertext of the same length, each letter shifted
\* forward by shift modulo 26 and each space unchanged; the decrypt machine
\* run on that ciphertext returns the plaintext.
C13_CipherRoundTrip ==
    /\ pc # "raised"
    /\ op.name = "encrypt" /\ pc = "returned" =>
          /\ tm.current_state = 2
          /\ Len(ret[1]) = Len(op.arg[1])
          /\ \A i \in 1..Len(op.arg[1]) :
                IF op.arg[1][i] = " " THEN ret[1][i] = " "
                ELSE ShiftedBy(op.arg[1][i], ret[1][i], op.arg[2])
    /\ op.name = "decrypt" /\ pc = "returned" => ret[1] = op.arg[1]

\* The same for the plaintexts that hold at least one letter.
C13_WithLetter ==
    (\E i \in 1..Len(op.arg[1]) : op.arg[1][i] \in Letters) => C13_CipherRoundTrip

C13_WithLetter_Witness ==
    /\ op.name = "decrypt" /\ pc = "returned"
    /\ op.arg[1] = <<"z", " ">> /\ op.arg[2] = -27

\* ------------------------------------------------------------------ construction and moves

\* C14: Tape(initial_state=s, start_size=n) with s not None ignores start_size
\* and holds exactly the symbols of s in order; with s None it holds exactly n
\* blank cells (none when no size is given); either way the head is at index
\* 0, min_bound = 0 and max_bound = (number of cells) - 1.
C14_Construction ==
    op.name = "Tape" =>
        /\ op.arg[1] # PyNone => tape._list = op.arg[1][1]
        /\ op.arg[1] = PyNone =>
              tape._list = Blanks(IF op.arg[2] = PyNone THEN 0 ELSE op.arg[2][1])
        /\ tape._loc = 0
        /\ tape._min_loc = 0
        /\ tape._max_loc = Len(tape._list) - 1

\* The same for every initial_state but the empty string.
C14_NonEmptyString ==
    op.name = "Tape" /\ op.arg[1] # Some(<<>>) => C14_Construction

\* The cell k places to the right of the head (to the left for k < 0).
HasRel(t, k) == 0 <= t._loc + k /\ t._loc + k < Len(t._list)
Rel(t, k) == t._list[t._loc + k + 1]

\* One move: the cell that was k places from the head is k + d places from it
\* afterwards (d = 1 for move_left, -1 for move_right) with the same symbol,
\* every other cell is blank, and at most one cell is new.
C15_Move ==
    op'.name \in {"move_left", "move_right"} =>
        LET d == IF op'.name = "move_left" THEN 1 ELSE -1
            N == Len(tape'._list) + tape._loc + 2
        IN /\ \A k \in (-N)..N :
                 HasRel(tape, k) =>
                     HasRel(tape', k + d) /\ Rel(tape', k + d) = Rel(tape, k)
           /\ \A k \in (-N)..N :
                 HasRel(tape', k) /\ ~HasRel(tape, k - d) => Rel(tape', k) = None
           /\ Len(tape'._list) <= Len(tape._list) + 1
           /\ op'.name = "move_left" /\ AtLeftEnd(tape) =>
                 /\ tape'._loc = 0
                 /\ Len(tape'._list) = Len(tape._list) + 1
                 /\ tape'._list[1] = None
                 /\ \A i \in 1..Len(tape._list) : tape'._list[i + 1] = tape._list[i]
           /\ get_string(tape') = get_string(tape)

\* C15: move_left and move_right change neither the symbol of an existing
\* cell nor the order of the cells; when move_left grows the tape on the left
\* every existing cell's index goes up by one and the head ends on the new
\* blank cell, immediately left of the cell it was on; get_string() is the
\* same before and after every move.
C15_MovesKeepContent == [][C15_Move]_vars

\* A tape built from a two-symbol string has grown on the left: the head is on
\* the new blank cell and the two symbols follow it.
C15_Witness ==
    /\ pc = "tape"
    /\ op.name = "move_left"
    /\ hist.nmoves = 1
    /\ hist.len0 = 2
    /\ tape._loc = 0
    /\ tape._list[1] = None
    /\ tape._list[2] = "a"
    /\ tape._list[3] = "b"

\* ------------------------------------------------------------------ frame and failure of a step

\* The cells after a step are the cells before it, sh places further right,
\* except for the one that was under the head; every other cell is blank.
FrameWithShift(sh) ==
    /\ Len(tape'._list) >= Len(tape._list) + sh
    /\ \A i \in 1..Len(tape._list) :
          i # tape._loc + 1 => tape'._list[i + sh] = tape._list[i]
    /\ \A j \in 1..Len(tape'._list) :
          j - sh \notin 1..Len(tape._list) => tape'._list[j] = None

C16_Step ==
    steps' = steps + 1 =>
        /\ FrameWithShift(0) \/ FrameWithShift(1)
        /\ tm'._accepting_states = tm._accepting_states
        /\ tm'._rejecting_states = tm._rejecting_states
        /\ tm'.states = tm.states
        /\ tm'._transition_fn = tm._transition_fn
        /\ HeadRow[3] = stay =>
              /\ tape'._loc = tape._loc
              /\ Len(tape'._list) = Len(tape._list)

\* C16: a successful advance() changes at most the cell that was under the
\* head; every other cell keeps its symbol and its place relative to that
\* cell, a cell the step adds is blank, and the accepting set, the rejecting
\* set, the state list and the table stay as they were; with direction stay
\* the head position and the number of cells stay too.
C16_StepFrame == [][C16_Step]_vars

\* One step on a one-cell tape has rewritten the cell and grown the tape on
\* the right.
C16_Witness ==
    /\ pc = "idle"
    /\ op.name = "advance"
    /\ steps = 1
    /\ hist.len0 = 1
    /\ tm._transition_fn = FlipTable
    /\ tape._list = <<"b", None>>
    /\ tape._loc = 1

C17_Miss ==
    InvokesAdvance /\ ~HasKey(tm._transition_fn, HeadKey) =>
        /\ exc' = KeyError
        /\ steps' = steps
        /\ tm'.current_state = tm.current_state
        /\ tape'._list = tape._list
        /\ tape'._loc = tape._loc
        /\ tm'.current_input = get_char(tape').val

\* C17: when advance() fails because (current_state, head symbol) has no
\* entry, the state, every cell, the number of cells and the head position
\* are as they were before the call, and current_input is the symbol under
\* the head.
C17_NoPartialStep == [][C17_Miss]_vars

\* A step was made, and the next advance() found no entry for a non-blank symbol
\* other than the one the machine had read before.
C17_Witness ==
    /\ steps >= 1
    /\ exc = KeyError
    /\ op.name = "advance"
    /\ ~HasKey(tm._transition_fn, HeadKey)
    /\ get_char(tape).val # None
    /\ tm.current_input = get_char(tape).val
    /\ tape._loc = 1
    /\ tape._list[1] # tape._list[2]

\* ------------------------------------------------------------------ observation flags

\* What run with both flags off does from where the run stands.
PlainStep == run_step([Primary EXCEPT !.draw = FALSE, !.print_configs = FALSE])

C18_Step ==
    pc = "running" /\ WillAccept(tape, tm, MaxSteps - steps) =>
        /\ tape' = PlainStep.tape
        /\ tm' = PlainStep.tm
        /\ steps' = PlainStep.steps
        /\ pc' = PlainStep.pc
        /\ ret' = PlainStep.ret
        /\ exc' = PlainStep.exc

\* C18: from every configuration from which the plain run reaches an accepting
\* state and returns s, the run with print_configs=True and the run with
\* draw=True make the same steps, end with the same state, tape and head,
\* return s and raise no error.
C18_FlagsDoNotChangeRun == [][C18_Step]_vars

\* The same for the runs with print_configs off, draw on or off.
C18_DrawOnly == [][~print_configs => C18_Step]_vars

\* ------------------------------------------------------------------ pairs of moves

\* The tape as it was before the move that came last.
Before == hist.before

\* The second move of a pair: what the pair has made of the tape it started on.
C19_Pair ==
    /\ Len(Before._list) >= 1
    /\ 0 <= Before._loc
    /\ Before._loc <= Len(Before._list) - 1
    =>
    /\ op.name = "move_left" /\ op'.name = "move_right" =>
          /\ get_char(tape') = get_char(Before)
          /\ IF AtLeftEnd(Before)
             THEN /\ tape'._list = <<None>> \o Before._list
                  /\ tape'._loc = Before._loc + 1
             ELSE /\ tape'._list = Before._list
                  /\ tape'._loc = Before._loc
    /\ op.name = "move_right" /\ op'.name = "move_left" =>
          /\ get_char(tape') = get_char(Before)
          /\ tape'._loc = Before._loc
          /\ IF AtRightEnd(Before)
             THEN tape'._list = Before._list \o <<None>>
             ELSE tape'._list = Before._list

\* C19: on a tape with at least one cell and the head within bounds,
\* move_left then move_right, and move_right then move_left, bring the head
\* back to the cell it started on (get_char() gives the same symbol), with at
\* most one blank cell added, at the boundary that was crossed.
C19_MovesAreInverse == [][C19_Pair]_vars

\* move_left then move_right from the first cell of a two-symbol tape: one
\* blank cell on the left, and the head back on the symbol it started on.
C19_Witness ==
    /\ pc = "tape"
    /\ op.name = "move_right"
    /\ hist.nmoves = 2
    /\ hist.ncross = 1
    /\ hist.len0 = 2
    /\ Before._loc = 0
    /\ tape._loc = 1
    /\ tape._list = <<None, "a", "b">>

\* ------------------------------------------------------------------ directions

C20_Odd ==
    /\ InvokesAdvance
    /\ HasKey(tm._transition_fn, HeadKey)
    /\ HeadRow[3] \notin {left, right, stay}
    =>
    /\ steps' = steps + 1
    /\ exc' # IndexError
    /\ exc' = KeyError => pc = "running" /\ print_configs
    /\ tm'.current_state = HeadRow[1]
    /\ tape'._list = [tape._list EXCEPT ![tape._loc + 1] = HeadRow[2]]
    /\ tape'._loc = tape._loc

\* C20: when the row applied by advance() has a direction that is none of
\* 'L', 'R' and 'S', the step raises no error, sets the state and writes the
\* output symbol as for any row, and leaves the head position and the number
\* of cells as they were.
C20_UnknownDirection == [][C20_Odd]_vars

\* advance() applied the row (0, a) -> (1, b, 'X').
C20_Witness ==
    /\ pc = "idle"
    /\ op.name = "advance"
    /\ exc = NoExc
    /\ steps = 1
    /\ tm._transition_fn = OddTable
    /\ tm.current_state = 1
    /\ tm.current_input = "a"
    /\ tape._loc = 0
    /\ tape._list[1] = "b"

====
